---------------------------- MODULE Spec2Model ----------------------------
(***************************************************************************)
(* A model of src/index.js: an express server that fetches three RSS/Atom  *)
(* feeds, normalizes their entries, extracts each article's text and       *)
(* returns an extractive summary per entry.                                *)
(*                                                                         *)
(* JavaScript values are tagged records: a string is the sequence of its   *)
(* whitespace-separated tokens (what text.split(/\s+/) yields for a        *)
(* trimmed text), so '' is Str(<<>>) and a URL is a one-token string.      *)
(* An action is one continuation of the event loop: the code that runs     *)
(* from one await to the next.                                             *)
(***************************************************************************)
EXTENDS Integers, Sequences, FiniteSets, TLC

VARIABLES
  sText, sMin, sMax, sOut, sPc,     \* summarizeText: arguments, return value, position
  nEntry, nSet, nOut, nPc           \* the map callback of fetchRSSFeed: a feed entry,
                                    \* the fields it carries, the item returned, position

VARIABLES
  pc,              \* where the route handler is suspended
  reqGuid,         \* req.params.guid of /feeds/item/:guid
  feedDoc,         \* the document each feed URL serves
  feedPromise,     \* feedPromises: the promise of each fetchRSSFeed call
  merged,          \* allItems as flattened, before the sort
  allItems,        \* allItems after the sort
  loopI,           \* i, the index of the batch loop
  slot,            \* processingPromises of every item, by position in allItems
  settled,         \* the positions of the current batch in the order they settled
  processedItems,
  timers,          \* how many inter-batch timers have been set
  delays,          \* how many of them have fired
  netErrors,       \* article requests that failed so far
  found,           \* /feeds/item/:guid: the position in allItems of the item found
  res,             \* the response sent
  qItems, qOut, qPc  \* allItems.sort: the array before, the array after, position

varsSum == <<sText, sMin, sMax, sOut, sPc>>
varsNorm == <<nEntry, nSet, nOut, nPc>>
varsReq == <<pc, reqGuid, feedDoc, feedPromise, merged, allItems, loopI, slot, settled,
             processedItems, timers, delays, netErrors, found, res>>
varsSort == <<qItems, qOut, qPc>>
vars == <<sText, sMin, sMax, sOut, sPc, nEntry, nSet, nOut, nPc,
          pc, reqGuid, feedDoc, feedPromise, merged, allItems, loopI, slot, settled,
          processedItems, timers, delays, netErrors, found, res, qItems, qOut, qPc>>

--------------------------------------------------------------------------
(* JavaScript values *)

Undefined == [t |-> "undefined"]
Null == [t |-> "null"]
Str(ws) == [t |-> "string", v |-> ws]

\* !!x : undefined, null and '' are falsy; any object and any other string is truthy
Truthy(x) == IF x.t = "string" THEN x.v # <<>> ELSE x.t = "object"

\* a || b
Or(a, b) == IF Truthy(a) THEN a ELSE b

Min2(a, b) == IF a <= b THEN a ELSE b
Max2(a, b) == IF a >= b THEN a ELSE b

\* Array.prototype.slice(0, k)
SliceTo(s, k) ==
  IF k >= 0 THEN SubSeq(s, 1, Min2(k, Len(s)))
  ELSE SubSeq(s, 1, Max2(Len(s) + k, 0))

\* Array.prototype.slice(from, to) for 0 <= from <= to
Slice(s, from, to) == SubSeq(s, from + 1, Min2(to, Len(s)))

RECURSIVE SumLen(_)
SumLen(ws) == IF ws = <<>> THEN 0 ELSE Len(Head(ws)) + SumLen(Tail(ws))

\* String.prototype.length of the text whose tokens are ws, joined by single blanks
TextLen(ws) == IF ws = <<>> THEN 0 ELSE SumLen(ws) + Len(ws) - 1

RECURSIVE Flatten(_)
Flatten(ss) == IF ss = <<>> THEN <<>> ELSE Head(ss) \o Flatten(Tail(ss))

\* s + mark, the mark glued to the last word (no blank before it)
AppendMark(ws, mark) ==
  IF ws = <<>> THEN <<mark>>
  ELSE SubSeq(ws, 1, Len(ws) - 1) \o <<ws[Len(ws)] \o mark>>

--------------------------------------------------------------------------
(* Array.prototype.sort as the runtime (V8, arrays shorter than 64) runs   *)
(* it: the leading run is counted, reversed when strictly descending, and  *)
(* the remaining elements are placed by binary insertion.  a is a sequence *)
(* of element indices and cmp[<<i, j>>] is comparefn(element i, element j).*)

RECURSIVE RunLength(_, _, _, _)
RunLength(a, cmp, desc, idx) ==
  IF idx > Len(a) THEN idx - 1
  ELSE LET order == cmp[<<a[idx], a[idx - 1]>>]
       IN IF (desc /\ order >= 0) \/ (~desc /\ order < 0) THEN idx - 1
          ELSE RunLength(a, cmp, desc, idx + 1)

Reverse(s) == [i \in 1..Len(s) |-> s[Len(s) + 1 - i]]

RECURSIVE BinarySearch(_, _, _, _, _)
\* left, right are 0-based bounds; the result is the 0-based insertion point
BinarySearch(a, cmp, pivot, left, right) ==
  IF left >= right THEN left
  ELSE LET mid == left + ((right - left) \div 2)
       IN IF cmp[<<pivot, a[mid + 1]>>] < 0
          THEN BinarySearch(a, cmp, pivot, left, mid)
          ELSE BinarySearch(a, cmp, pivot, mid + 1, right)

\* the pivot is taken out of position start and put back at the 0-based position at
InsertAt(a, start, at) ==
  SubSeq(a, 1, at) \o <<a[start]>> \o SubSeq(a, at + 1, start - 1)
    \o SubSeq(a, start + 1, Len(a))

RECURSIVE BinaryInsertionSort(_, _, _)
\* a[1..start-1] is sorted; start is the 1-based position of the next pivot
BinaryInsertionSort(a, cmp, start) ==
  IF start > Len(a) THEN a
  ELSE BinaryInsertionSort(
         InsertAt(a, start, BinarySearch(a, cmp, a[start], 0, start - 1)), cmp, start + 1)

\* the leading run, reversed in place when it is strictly descending
MakeRun(a, desc, run) ==
  IF desc THEN Reverse(SubSeq(a, 1, run)) \o SubSeq(a, run + 1, Len(a)) ELSE a

SortFromRun(a, cmp, desc, run) == BinaryInsertionSort(MakeRun(a, desc, run), cmp, run + 1)

SortRuns(a, cmp, desc) == SortFromRun(a, cmp, desc, RunLength(a, cmp, desc, 3))

\* the permutation of 1..n that sort() leaves the array in
ArraySort(n, cmp) ==
  IF n < 2 THEN [k \in 1..n |-> k]
  ELSE SortRuns([k \in 1..n |-> k], cmp, cmp[<<2, 1>>] < 0)

--------------------------------------------------------------------------
(* summarizeText *)

\* the stopword list of summarizeText
Stopwords ==
  {"a", "an", "the", "and", "or", "but", "is", "are", "was", "were",
   "in", "on", "at", "to", "for", "with", "by", "about", "from", "of",
   "that", "this", "these", "those", "it", "its"}

\* the lower-case alphabetic words the modelled texts are written in
Lexicon ==
  <<"markets", "rallied", "after", "the", "central", "bank", "held", "rates",
    "and", "ministers", "signalled", "a", "budget", "review", "by", "spring",
    "markets", "reacted", "to", "rates">>

Vocab == {Lexicon[i] : i \in 1..Len(Lexicon)} \cup {"no", "description", "officials", "said", "talks", "resumed"}

\* the words that close a sentence: they carry the full stop
Terminated == {v \o "." : v \in Vocab}

EndsSentence(tok) == tok \in Terminated

StripStop == [tok \in Terminated |-> CHOOSE v \in Vocab : tok = v \o "."]

\* sentence.toLowerCase().split(/\W+/) of one token: the word without its punctuation
Base(tok) == IF EndsSentence(tok) THEN StripStop[tok] ELSE tok

RECURSIVE Tokenize(_, _)
\* natural.SentenceTokenizer.tokenize: the text cut after every sentence-ending
\* word; text without any sentence end is one sentence
Tokenize(ws, cur) ==
  IF ws = <<>> THEN (IF cur = <<>> THEN <<>> ELSE <<cur>>)
  ELSE IF EndsSentence(Head(ws))
       THEN <<Append(cur, Head(ws))>> \o Tokenize(Tail(ws), <<>>)
       ELSE Tokenize(Tail(ws), Append(cur, Head(ws)))

\* sentence.toLowerCase().split(/\W+/).filter(word => word.length > 1)
ScoreWords(sentence) ==
  SelectSeq([i \in 1..Len(sentence) |-> Base(sentence[i])], LAMBDA w : Len(w) > 1)

RECURSIVE CountIn(_, _)
CountIn(w, ws) ==
  IF ws = <<>> THEN 0
  ELSE (IF Head(ws) = w THEN 1 ELSE 0) + CountIn(w, Tail(ws))

\* wordFreq[w] for the counted words allWords (a stopword is never counted)
WordFreq(w, allWords) == IF w \in Stopwords THEN 0 ELSE CountIn(w, allWords)

RECURSIVE ScoreSum(_, _)
ScoreSum(ws, allWords) ==
  IF ws = <<>> THEN 0 ELSE WordFreq(Head(ws), allWords) + ScoreSum(Tail(ws), allWords)

\* score as a fraction <<numerator, denominator>>
SentenceScore(sentence, allWords) ==
  LET words == ScoreWords(sentence)
  IN IF Len(words) > 0 THEN <<ScoreSum(words, allWords), Len(words)>> ELSE <<0, 1>>

RECURSIVE SentenceScores(_, _)
SentenceScores(ss, allWords) ==
  IF ss = <<>> THEN <<>>
  ELSE <<SentenceScore(Head(ss), allWords)>> \o SentenceScores(Tail(ss), allWords)

Sign(x) == IF x < 0 THEN -1 ELSE IF x > 0 THEN 1 ELSE 0

\* sentences.indexOf(s), 1-based
IndexOf(sentences, s) == CHOOSE i \in 1..Len(sentences) :
  sentences[i] = s /\ \A j \in 1..(i - 1) : sentences[j] # s

RECURSIVE Positions(_, _)
Positions(idxs, sentences) ==
  IF idxs = <<>> THEN <<>>
  ELSE <<IndexOf(sentences, sentences[Head(idxs)])>> \o Positions(Tail(idxs), sentences)

\* (a, b) => b.score - a.score, on scores sc
ScoreCompare(sc) ==
  [p \in (1..Len(sc)) \X (1..Len(sc)) |->
     Sign(sc[p[2]][1] * sc[p[1]][2] - sc[p[1]][1] * sc[p[2]][2])]

\* sentenceScores.sort((a, b) => b.score - a.score): sentence indices by falling score
ByScore(sentences) ==
  ArraySort(Len(sentences),
            ScoreCompare(SentenceScores(sentences, ScoreWords(Flatten(sentences)))))

\* (a, b) => sentences.indexOf(a.sentence) - sentences.indexOf(b.sentence)
PositionCompare(pos) ==
  [p \in (1..Len(pos)) \X (1..Len(pos)) |-> Sign(pos[p[1]] - pos[p[2]])]

Permute(xs, perm) == [k \in 1..Len(perm) |-> xs[perm[k]]]

\* .sort((a, b) => sentences.indexOf(a.sentence) - sentences.indexOf(b.sentence))
ByPosition(idxs, sentences) ==
  Permute(idxs, ArraySort(Len(idxs), PositionCompare(Positions(idxs, sentences))))

\* .slice(0, 5), restored to document order, mapped to the sentences
TopSentences(sentences) ==
  Permute(sentences, ByPosition(Slice(ByScore(sentences), 0, 5), sentences))

\* .slice(5, 10) of the ranking, restored to document order
AdditionalSentences(sentences) ==
  Permute(sentences, ByPosition(Slice(ByScore(sentences), 5, 10), sentences))

RECURSIVE Rebuild(_, _, _, _, _)
\* the loop that refills the summary when the selection exceeds maxWords
Rebuild(top, summary, currentWords, minWords, maxWords) ==
  IF top = <<>> THEN summary
  ELSE LET sentence == Head(top)
           sentenceWordCount == Len(sentence)
       IN IF currentWords + sentenceWordCount <= maxWords
          THEN Rebuild(Tail(top), summary \o sentence, currentWords + sentenceWordCount,
                       minWords, maxWords)
          ELSE IF summary = <<>> \/ currentWords < minWords
               THEN LET wordsNeeded == Min2(maxWords - currentWords, sentenceWordCount)
                    IN summary \o AppendMark(SliceTo(sentence, wordsNeeded), "...")
               ELSE summary

RECURSIVE AddMore(_, _, _, _, _)
\* the loop over the next-ranked sentences
AddMore(more, summary, wordCount, minWords, maxWords) ==
  IF more = <<>> THEN summary
  ELSE IF wordCount + Len(Head(more)) <= maxWords
       THEN IF wordCount + Len(Head(more)) >= minWords
            THEN summary \o Head(more)
            ELSE AddMore(Tail(more), summary \o Head(more), wordCount + Len(Head(more)),
                         minWords, maxWords)
       ELSE AddMore(Tail(more), summary, wordCount, minWords, maxWords)

\* ' Additional context: ' + keyWords.join(' ') + '.'
ClosingFragment(firstSentence, shortfall) ==
  <<"Additional", "context:">> \o AppendMark(SliceTo(firstSentence, shortfall), ".")

\* if (wordCount > maxWords): the summary is rebuilt sentence by sentence
Shorten(top, minWords, maxWords) ==
  IF Len(Flatten(top)) > maxWords THEN Rebuild(top, <<>>, 0, minWords, maxWords)
  ELSE Flatten(top)

\* if (wordCount < minWords) and sentences are left: the next-ranked ones are tried
Extend(summary, sentences, top, minWords, maxWords) ==
  IF Len(summary) < minWords /\ Len(sentences) > Len(top)
  THEN AddMore(AdditionalSentences(sentences), summary, Len(summary), minWords, maxWords)
  ELSE summary

\* if (wordCount < minWords) still: the closing fragment
Close(summary, top, minWords) ==
  IF Len(summary) < minWords
  THEN summary \o ClosingFragment(top[1], minWords - Len(summary))
  ELSE summary

AdjustSelection(top, sentences, minWords, maxWords) ==
  Close(Extend(Shorten(top, minWords, maxWords), sentences, top, minWords, maxWords),
        top, minWords)

\* the length adjustment that follows the selection of the top sentences
AdjustLength(sentences, minWords, maxWords) ==
  AdjustSelection(TopSentences(sentences), sentences, minWords, maxWords)

\* the branch for a text under 100 characters
ShortText(ws, minWords) ==
  LET wordCount == Len(ws)
  IN IF ws # <<>> /\ wordCount < minWords
     THEN ws \o SliceTo(ws, minWords - wordCount)
     ELSE ws

\* the branch for a text of at most three sentences
FewSentences(words, minWords, maxWords) ==
  IF Len(words) <= maxWords /\ Len(words) >= minWords THEN words
  ELSE IF Len(words) < minWords
       THEN SliceTo(words \o SliceTo(words, minWords - Len(words)), maxWords)
       ELSE AppendMark(SliceTo(words, maxWords), "...")

\* summarizeText applied to a string
SummarizeString(ws, minWords, maxWords) ==
  IF ws = <<>> \/ TextLen(ws) < 100 THEN ShortText(ws, minWords)
  ELSE IF Len(Tokenize(ws, <<>>)) <= 3 THEN FewSentences(ws, minWords, maxWords)
       ELSE AdjustLength(Tokenize(ws, <<>>), minWords, maxWords)

\* an object has no replace() and no split(): the try block raises a TypeError and
\* so does the catch block that handles it
summarizeThrows(text) == text.t = "object"

\* the value summarizeText returns when it does not throw
summarizeText(text, minWords, maxWords) ==
  IF text.t = "string" THEN Str(SummarizeString(text.v, minWords, maxWords)) ELSE text

--------------------------------------------------------------------------
(* Inputs of the summarizer specification *)

MaxSentences == 5

\* a sentence of n words taken from the lexicon at an offset
MakeSentence(offset, n) ==
  AppendMark([i \in 1..n |-> Lexicon[((offset + i - 1) % Len(Lexicon)) + 1]], ".")

SentencePool ==
  {MakeSentence(0, 3), MakeSentence(4, 9), MakeSentence(9, 14), MakeSentence(13, 27)}

RECURSIVE TextsOf(_)
\* the texts made of exactly k pool sentences
TextsOf(k) ==
  IF k = 0 THEN {<<>>}
  ELSE {s \o t : s \in SentencePool, t \in TextsOf(k - 1)}

SummarizerTexts ==
  UNION {TextsOf(k) : k \in 0..MaxSentences}
    \cup {<<"no", "description">>, <<"officials", "said", "talks", "resumed">>}

\* DefaultMinWords, DefaultMaxWords: the defaults of summarizeText;
\* PipelineMinWords: the single bound both routes pass
DefaultMinWords == 55
DefaultMaxWords == 60
PipelineMinWords == 60

WordBounds ==
  {<<DefaultMinWords, DefaultMaxWords>>, <<PipelineMinWords, DefaultMaxWords>>,
   <<3, 5>>, <<20, 22>>}

--------------------------------------------------------------------------
(* fetchRSSFeed: the canonical item of one feed entry *)

\* an XML element that xml2js delivers as an object: `_` is its text, `$` its attributes
Elem(text, attrs) == [t |-> "object", text |-> text, attrs |-> attrs]
Attrs(type, url, href) == [t |-> "object", type |-> type, url |-> url, href |-> href]

\* several elements of one name arrive as an array: an object with neither `_` nor `$`
ArrayOfElems == Elem(Undefined, Undefined)

\* a feed entry without any field
EmptyEntry ==
  [enclosure |-> Undefined, mediaContent |-> Undefined, mediaThumbnail |-> Undefined,
   description |-> Undefined, summary |-> Undefined, guid |-> Undefined, id |-> Undefined,
   link |-> Undefined, title |-> Undefined, pubDate |-> Undefined,
   published |-> Undefined, updated |-> Undefined]

\* x.$ of a truthy x: a string has no `$`
AttrsOf(x) == IF x.t = "object" THEN x.attrs ELSE Undefined

\* type?.startsWith('image/')
ImageTypes == {"image/jpeg", "image/png"}
IsImageType(type) == type.t = "string" /\ Len(type.v) = 1 /\ type.v[1] \in ImageTypes

\* the src="..." tokens of the modelled descriptions and the URL each one quotes
ImgSrcOf == [tok \in {"src=\"https://img.example/a.jpg\">"} |-> "https://img.example/a.jpg"]

\* description.includes('<img')
IncludesImg(ws) == \E i \in 1..Len(ws) : ws[i] = "<img"

\* description.match(/<img[^>]+src="([^">]+)"/)
ImgMatch(ws) ==
  IF \E i \in 1..(Len(ws) - 1) : ws[i] = "<img" /\ ws[i + 1] \in DOMAIN ImgSrcOf
  THEN LET i == CHOOSE i \in 1..(Len(ws) - 1) :
                  /\ ws[i] = "<img" /\ ws[i + 1] \in DOMAIN ImgSrcOf
                  /\ \A j \in 1..(i - 1) : ~(ws[j] = "<img" /\ ws[j + 1] \in DOMAIN ImgSrcOf)
       IN Str(<<ImgSrcOf[ws[i + 1]]>>)
  ELSE Null

\* the image cascade: either it raises a TypeError (a property read on undefined, a
\* method an object lacks) or it yields imageUrl
ImageCascade(item) ==
  IF Truthy(item.enclosure) /\ AttrsOf(item.enclosure).t # "object"
  THEN [throws |-> TRUE, url |-> Null]
  ELSE IF Truthy(item.enclosure) /\ IsImageType(item.enclosure.attrs.type)
  THEN [throws |-> FALSE, url |-> item.enclosure.attrs.url]
  ELSE IF Truthy(item.mediaContent) /\ AttrsOf(item.mediaContent).t # "object"
  THEN [throws |-> TRUE, url |-> Null]
  ELSE IF Truthy(item.mediaContent) /\ IsImageType(item.mediaContent.attrs.type)
  THEN [throws |-> FALSE, url |-> item.mediaContent.attrs.url]
  ELSE IF Truthy(item.mediaThumbnail)
  THEN IF AttrsOf(item.mediaThumbnail).t # "object"
       THEN [throws |-> TRUE, url |-> Null]
       ELSE [throws |-> FALSE, url |-> item.mediaThumbnail.attrs.url]
  ELSE IF Truthy(item.description)
  THEN IF item.description.t = "object"
       THEN [throws |-> TRUE, url |-> Null]
       ELSE IF IncludesImg(item.description.v)
            THEN [throws |-> FALSE, url |-> ImgMatch(item.description.v)]
            ELSE [throws |-> FALSE, url |-> Null]
  ELSE [throws |-> FALSE, url |-> Null]

\* String(x) inside a template literal
ToStringTokens(x) ==
  IF x.t = "string" THEN x.v
  ELSE IF x.t = "undefined" THEN <<"undefined">>
       ELSE IF x.t = "null" THEN <<"null">> ELSE <<"[object", "Object]">>

\* a + b on the texts of two strings: no blank is inserted at the seam
Glue(a, b) ==
  IF a = <<>> THEN b
  ELSE IF b = <<>> THEN a
       ELSE SubSeq(a, 1, Len(a) - 1) \o <<a[Len(a)] \o b[1]>> \o Tail(b)

\* `${url}-${item.title}-${item.pubDate}`
SyntheticGuid(url, item) ==
  Str(Glue(Glue(Glue(Glue(<<url>>, <<"-">>), ToStringTokens(item.title)), <<"-">>),
           ToStringTokens(item.pubDate)))

\* the guid of an entry: its own guid (unwrapped), else id, link or the synthetic key
Guid(url, item) ==
  LET guid == IF Truthy(item.guid) /\ item.guid.t = "object" /\ Truthy(item.guid.text)
              THEN item.guid.text ELSE item.guid
  IN IF ~Truthy(guid)
     THEN Or(item.id, Or(item.link, SyntheticGuid(url, item)))
     ELSE guid

\* typeof link === 'object'
TypeofObject(x) == x.t \in {"object", "null"}

\* item.link, or for an object its $.href, or '#' when the object has no `$`
Link(item) ==
  IF TypeofObject(item.link)
  THEN IF Truthy(AttrsOf(item.link)) THEN AttrsOf(item.link).href ELSE Str(<<"#">>)
  ELSE item.link

\* the record the map callback returns
CanonicalItem(url, sourceName, item) ==
  [guid |-> Guid(url, item),
   title |-> Or(item.title, Str(<<"No", "Title">>)),
   description |-> Or(item.description, Or(item.summary, Str(<<"No", "Description">>))),
   link |-> Link(item),
   pubDate |-> Or(item.pubDate, Or(item.published, Or(item.updated, Str(<<"No", "Date">>)))),
   imageUrl |-> ImageCascade(item).url,
   source |-> Str(<<url>>),
   sourceName |-> sourceName]

\* the values a feed can carry in each field of an entry
TextValues == {Str(<<"officials", "said", "talks", "resumed.">>), Str(<<>>)}
HtmlText == Str(<<"<img", "src=\"https://img.example/a.jpg\">", "officials", "said.">>)
LinkUrl == Str(<<"https://news.example/a">>)
ImageElem == Elem(Undefined, Attrs(Str(<<"image/jpeg">>), Str(<<"https://img.example/e.jpg">>), Undefined))
AudioElem == Elem(Undefined, Attrs(Str(<<"audio/mpeg">>), Str(<<"https://img.example/e.mp3">>), Undefined))
TypedText == Elem(Str(<<"officials", "said.">>), Attrs(Str(<<"html">>), Undefined, Undefined))

FieldValues ==
  [enclosure |-> {ImageElem, AudioElem, Str(<<"attachment">>)},
   mediaContent |-> {ImageElem, AudioElem},
   mediaThumbnail |-> {ImageElem, ArrayOfElems},
   description |-> TextValues \cup {HtmlText, TypedText},
   summary |-> TextValues \cup {TypedText},
   guid |-> {Str(<<"tag:a">>), Elem(Str(<<"tag:b">>), Attrs(Undefined, Undefined, Undefined)),
             Elem(Undefined, Attrs(Undefined, Undefined, Undefined))},
   id |-> {Str(<<"urn:c">>)},
   link |-> {LinkUrl, Str(<<>>), ArrayOfElems,
             Elem(Undefined, Attrs(Undefined, Undefined, LinkUrl)),
             Elem(Undefined, Attrs(Str(<<"text/html">>), Undefined, Undefined))},
   title |-> TextValues \cup {TypedText},
   pubDate |-> {Str(<<"Mon,", "02", "Nov", "2026">>), Str(<<>>)},
   published |-> {Str(<<"2026-11-02T10:00:00Z">>)},
   updated |-> {Str(<<"2026-11-03T10:00:00Z">>)}]

\* how many fields of the entry the feed fills in
MaxFields == 3

FeedUrl == "https://feeds.example/rss.xml"

IdleNorm == nEntry = EmptyEntry /\ nSet = {} /\ nOut = Undefined /\ nPc = "off"
IdleSum == sText = <<>> /\ sMin = 0 /\ sMax = 0 /\ sOut = Undefined /\ sPc = "off"

IdleReq ==
  /\ pc = "off" /\ reqGuid = Undefined /\ feedDoc = <<>> /\ feedPromise = <<>>
  /\ merged = <<>> /\ allItems = <<>> /\ loopI = 0 /\ slot = <<>> /\ settled = <<>>
  /\ processedItems = <<>> /\ timers = 0 /\ delays = 0 /\ netErrors = 0
  /\ found = 0 /\ res = Undefined

IdleSort == qItems = <<>> /\ qOut = <<>> /\ qPc = "off"

InitNorm ==
  /\ IdleSum
  /\ IdleReq
  /\ IdleSort
  /\ nEntry = EmptyEntry
  /\ nSet = {}
  /\ nOut = Undefined
  /\ nPc = "parse"

\* the feed document carries field f with value v
EntryField(f, v) ==
  /\ nPc = "parse"
  /\ f \notin nSet
  /\ Cardinality(nSet) < MaxFields
  /\ nEntry' = [nEntry EXCEPT ![f] = v]
  /\ nSet' = nSet \cup {f}
  /\ UNCHANGED <<nOut, nPc>>
  /\ UNCHANGED <<varsSum, varsReq, varsSort>>

\* the map callback runs on the entry
Normalize ==
  /\ nPc = "parse"
  /\ IF ImageCascade(nEntry).throws
     THEN nOut' = Undefined /\ nPc' = "threw"
     ELSE nOut' = CanonicalItem(FeedUrl, Str(<<"Example", "News">>), nEntry) /\ nPc' = "emitted"
  /\ UNCHANGED <<nEntry, nSet>>
  /\ UNCHANGED <<varsSum, varsReq, varsSort>>

NextNorm ==
  \/ \E f \in DOMAIN FieldValues : \E v \in FieldValues[f] : EntryField(f, v)
  \/ Normalize

InitSum ==
  /\ sText \in SummarizerTexts
  /\ \E b \in WordBounds : sMin = b[1] /\ sMax = b[2]
  /\ sOut = Undefined
  /\ sPc = "call"
  /\ IdleNorm
  /\ IdleReq
  /\ IdleSort

Summarize ==
  /\ sPc = "call"
  /\ sOut' = summarizeText(Str(sText), sMin, sMax)
  /\ sPc' = "returned"
  /\ UNCHANGED <<sText, sMin, sMax>>
  /\ UNCHANGED <<varsNorm, varsReq, varsSort>>

NextSum == Summarize

SpecSummarizer == InitSum /\ [][NextSum]_vars

SpecNormalizer == InitNorm /\ [][NextNorm]_vars

--------------------------------------------------------------------------
(* extractArticleContent *)

\* paragraphTexts.join('\n\n').length: each seam is two characters, one more than
\* the blank TextLen counts
JoinedLen(paras) ==
  IF paras = <<>> THEN 0
  ELSE TextLen(Flatten(paras)) + (Len(paras) - 1)

\* the paragraphs whose trimmed text is longer than n characters
LongerThan(paras, n) == SelectSeq(paras, LAMBDA para : para # <<>> /\ TextLen(para) > n)

\* A page, once scripts, styles, navigation and the like are removed:
\*   matched    whether one of the content selectors matches an element
\*   container  the <p> texts inside the first matching element
\*   others     the <p> texts outside it
\*   body       $('body').text().trim().replace(/\s+/g, ' ')
ExtractFromPage(url, page) ==
  LET first == IF page.matched THEN LongerThan(page.container, 20) ELSE <<>>
      allParas == page.container \o page.others
      significant == LongerThan(LongerThan(allParas, 20), 30)
      articleContent ==
        IF first = <<>> \/ JoinedLen(first) < 200
        THEN IF Len(significant) > 0 THEN significant ELSE first
        ELSE first
  IN IF articleContent # <<>> /\ JoinedLen(articleContent) > 150
     THEN Str(Flatten(articleContent))
     ELSE IF TextLen(page.body) > 200
          THEN Str(page.body)
          ELSE Str(<<"Could", "not", "extract", "meaningful", "content", "from", url \o ".">>)

\* the catch block: `Error extracting content: ${error.message}`
ExtractError(message) == Str(<<"Error", "extracting", "content:">> \o message)

TimeoutMessage == <<"timeout", "of", "15000ms", "exceeded">>

--------------------------------------------------------------------------
(* The feeds and the articles the routes meet *)

\* rssFeeds
rssFeeds ==
  <<"https://rss.nytimes.com/services/xml/rss/nyt/World.xml",
    "https://feeds.bbci.co.uk/news/rss.xml",
    "https://moxie.foxnews.com/google-publisher/latest.xml">>

Sources == 1..Len(rssFeeds)

\* new URL(url).hostname
Hostname == <<"rss.nytimes.com", "feeds.bbci.co.uk", "moxie.foxnews.com">>

\* how many entries a feed document holds at most
MaxEntries == 3

Digit == <<"1", "2", "3", "4", "5", "6", "7", "8", "9">>

\* the shape of the k-th entry of each feed
EntryKinds ==
  <<<<"rss", "rssThin", "rssNoLink", "rssBody">>,
    <<"rssNoLink", "rss", "rssBadEnclosure", "rss">>,
    <<"atom", "atom", "atomMultiLink", "atom">>>>

KindOf(s, k) == EntryKinds[s][((k - 1) % Len(EntryKinds[s])) + 1]

ArticleUrl(s, k) == "https://news" \o Digit[s] \o ".example/story/" \o Digit[k]

\* pubDate strings and what new Date(...) makes of them (days); any other value
\* gives an invalid date
DateStrings ==
  <<"2026-11-01T08:00:00Z", "2026-11-02T08:00:00Z", "2026-11-03T08:00:00Z",
    "2026-11-04T08:00:00Z">>

DateOf(s, k) == Str(<<DateStrings[((2 * s + 3 * k) % Len(DateStrings)) + 1]>>)

Teaser(s, k) ==
  Str(<<"story", "s" \o Digit[s] \o "e" \o Digit[k], "officials", "said", "talks", "resumed.">>)

Headline(s, k) == Str(<<"Headline", "s" \o Digit[s] \o "e" \o Digit[k]>>)

\* the k-th entry of the document feed s serves
FeedEntry(s, k) ==
  LET kind == KindOf(s, k)
      base == [EmptyEntry EXCEPT !.title = Headline(s, k)]
  IN CASE kind = "rss" ->
            [base EXCEPT !.description = Teaser(s, k),
                         !.link = Str(<<ArticleUrl(s, k)>>),
                         !.pubDate = DateOf(s, k),
                         !.guid = Elem(Str(<<"guid-s" \o Digit[s] \o "e" \o Digit[k]>>),
                                       Attrs(Undefined, Undefined, Undefined)),
                         !.mediaThumbnail = ImageElem]
       [] kind = "rssThin" ->
            [base EXCEPT !.description = Teaser(s, k),
                         !.link = Str(<<ArticleUrl(s, k)>>),
                         !.pubDate = DateOf(s, k)]
       [] kind = "rssNoLink" ->
            [base EXCEPT !.description = Teaser(s, k)]
       [] kind = "rssBody" ->
            [base EXCEPT !.link = Str(<<ArticleUrl(s, k)>>),
                         !.pubDate = Str(<<"yesterday">>),
                         !.guid = Str(<<"guid-s" \o Digit[s] \o "e" \o Digit[k]>>)]
       [] kind = "rssBadEnclosure" ->
            [base EXCEPT !.description = Teaser(s, k),
                         !.link = Str(<<ArticleUrl(s, k)>>),
                         !.enclosure = Str(<<"attachment">>)]
       [] kind = "atom" ->
            [base EXCEPT !.summary = Teaser(s, k),
                         !.link = Elem(Undefined, Attrs(Undefined, Undefined,
                                                        Str(<<ArticleUrl(s, k)>>))),
                         !.updated = DateOf(s, k),
                         !.id = Str(<<"urn:s" \o Digit[s] \o "e" \o Digit[k]>>)]
       [] kind = "atomMultiLink" ->
            [base EXCEPT !.summary = Elem(Teaser(s, k), Attrs(Str(<<"html">>), Undefined, Undefined)),
                         !.link = ArrayOfElems,
                         !.updated = DateOf(s, k),
                         !.id = Str(<<"urn:s" \o Digit[s] \o "e" \o Digit[k]>>)]

\* the document of feed s with n entries: result.rss.channel or result.feed
FeedDocument(s, n) ==
  [title |-> IF s = 2 THEN Undefined ELSE Str(<<"Feed", Digit[s]>>),
   entries |-> [k \in 1..n |-> FeedEntry(s, k)]]

\* the page behind the article URL of entry (s, k)
ArticleSentence(s, k, j) == MakeSentence(s + 2 * k + 3 * j, 9)

PageOf(s, k) ==
  LET kind == KindOf(s, k)
      paras == [j \in 1..4 |-> ArticleSentence(s, k, j)]
  IN CASE kind = "atom" ->
            [matched |-> FALSE, container |-> <<>>, others |-> paras, body |-> Flatten(paras)]
       [] kind = "rssThin" ->
            [matched |-> TRUE, container |-> <<<<"read", "more.">>>>, others |-> <<>>,
             body |-> <<"subscribe", "to", "continue", "reading.">>]
       [] kind = "rssBody" ->
            [matched |-> FALSE, container |-> <<>>, others |-> <<>>,
             body |-> <<"live", "updates", "s" \o Digit[s] \o "e" \o Digit[k]>> \o Flatten(paras)]
       [] OTHER ->
            [matched |-> TRUE, container |-> paras,
             others |-> <<<<"related", "stories", "and", "newsletters.">>>>,
             body |-> Flatten(paras)]

\* the page a URL serves
WebPage(url) ==
  LET at == CHOOSE p \in Sources \X (1..Len(Digit)) : ArticleUrl(p[1], p[2]) = url
  IN PageOf(at[1], at[2])

--------------------------------------------------------------------------
(* fetchRSSFeed, and the per-item pipeline of the two routes *)

\* fetchRSSFeed without its catch block: an error rejects the promise
fetchRSSFeedUncaught(s, doc, arrived) ==
  LET sourceName == Or(doc.title, Str(<<Hostname[s]>>))
      failed == ~arrived \/ \E k \in 1..Len(doc.entries) : ImageCascade(doc.entries[k]).throws
  IN IF failed THEN [st |-> "rejected", items |-> <<>>]
     ELSE [st |-> "fulfilled",
           items |-> [k \in 1..Len(doc.entries) |->
                        CanonicalItem(rssFeeds[s], sourceName, doc.entries[k])]]

\* the promise fetchRSSFeed returns once the request for feed s has ended: the try
\* block maps the entries, the catch block turns any error into []
fetchRSSFeed(s, doc, arrived) ==
  LET sourceName == Or(doc.title, Str(<<Hostname[s]>>))
      failed == ~arrived \/ \E k \in 1..Len(doc.entries) : ImageCascade(doc.entries[k]).throws
  IN [st |-> "fulfilled",
      items |-> IF failed THEN <<>>
                ELSE [k \in 1..Len(doc.entries) |->
                        CanonicalItem(rssFeeds[s], sourceName, doc.entries[k])]]

\* feedsResults.forEach(feedItems => allItems = allItems.concat(feedItems))
MergeFeeds(results) == Flatten([s \in 1..Len(results) |-> results[s].items])

\* new Date(pubDate): the time value, or NaN
NaN == -1
ParseDate(x) ==
  IF x.t = "string" /\ Len(x.v) = 1 /\ \E d \in 1..Len(DateStrings) : DateStrings[d] = x.v[1]
  THEN CHOOSE d \in 1..Len(DateStrings) : DateStrings[d] = x.v[1]
  ELSE NaN

\* (a, b) => isNaN(dateA) || isNaN(dateB) ? 0 : dateB - dateA
DateCompare(a, b) ==
  IF ParseDate(a.pubDate) = NaN \/ ParseDate(b.pubDate) = NaN THEN 0
  ELSE ParseDate(b.pubDate) - ParseDate(a.pubDate)

\* allItems.sort(...)
SortByDate(items) ==
  Permute(items,
          ArraySort(Len(items),
                    [p \in (1..Len(items)) \X (1..Len(items)) |->
                       DateCompare(items[p[1]], items[p[2]])]))

batchSize == 3

\* item.link && item.link !== '#'
HasLink(item) == Truthy(item.link) /\ item.link # Str(<<"#">>)

Processed(item, summary) ==
  [guid |-> item.guid, title |-> item.title, description |-> item.description,
   summarized_content |-> summary, imageUrl |-> item.imageUrl,
   sourceName |-> item.sourceName, pubDate |-> item.pubDate]

Fulfilled(value, ext) == [st |-> "fulfilled", val |-> value, ext |-> ext]
Rejected(ext) == [st |-> "rejected", val |-> Undefined, ext |-> ext]
Idle == [st |-> "idle", val |-> Undefined, ext |-> "none"]
InFlight == [st |-> "inflight", val |-> Undefined, ext |-> "none"]

\* summarizeText(x, 60) as the routes call it: the promise-level outcome
SummaryOf(x) == summarizeText(x, PipelineMinWords, DefaultMaxWords)

\* /feeds/all, an item with a link, after extractArticleContent has returned content:
\* the try block, and the catch block when the try block throws
ItemWithLink(item, content, ext) ==
  IF ~summarizeThrows(content)
  THEN Fulfilled(Processed(item, SummaryOf(content)), ext)
  ELSE LET text == Or(item.description, Str(<<"Summarization", "failed.">>))
       IN IF summarizeThrows(text) THEN Rejected(ext)
          ELSE Fulfilled(Processed(item, SummaryOf(text)), ext)

\* /feeds/all, an item without a link
ItemWithoutLink(item) ==
  LET text == Or(item.description, Str(<<"No", "content", "to", "summarize.">>))
  IN IF summarizeThrows(text) THEN Rejected("none")
     ELSE Fulfilled(Processed(item, SummaryOf(text)), "none")

\* what extractArticleContent returns for a page that arrived, and whether a tier
\* of the cascade produced it
Extracted(url) == ExtractFromPage(url, WebPage(url))
ExtractKind(url) ==
  IF Extracted(url).v[1] = "Could" /\ Len(Extracted(url).v) = 7 THEN "insufficient" ELSE "ok"

\* the positions (1-based) of the batch that starts at loop index lo
BatchOf(lo, n) == (lo + 1)..Min2(lo + batchSize, n)

\* batch.map(async (item) => ...): every callback runs up to its first await
StartBatch(slots, items, lo) ==
  [j \in 1..Len(items) |->
     IF j \in BatchOf(lo, Len(items))
     THEN IF HasLink(items[j]) THEN InFlight ELSE ItemWithoutLink(items[j])
     ELSE slots[j]]

\* the positions of the batch whose promises are settled when map returns
SettledAtStart(items, lo) ==
  SelectSeq([k \in 1..Cardinality(BatchOf(lo, Len(items))) |-> lo + k],
            LAMBDA j : ~HasLink(items[j]))

\* the values in the order in which the promises of the batch settled
BatchResultsAsSettled(slots, done, lo, n) ==
  [k \in 1..Cardinality(BatchOf(lo, n)) |-> slots[done[lo + k]].val]

\* await Promise.all(processingPromises): the values in the order of the promises;
\* done is the order in which the promises of the request have settled so far
BatchResults(slots, done, lo, n) ==
  [k \in 1..Cardinality(BatchOf(lo, n)) |-> slots[lo + k].val]

\* the same test with <= for <
MoreBatchesInclusive(lo, n) == lo + batchSize <= n

\* if (i + batchSize < allItems.length)
MoreBatches(lo, n) == lo + batchSize < n

OkResponse(items) == [status |-> 200, items |-> items]
ErrorResponse == [status |-> 500, items |-> <<>>]

\* the article requests that may fail within one request
MaxNetErrors == 2

--------------------------------------------------------------------------
(* GET /feeds/all *)

PendingFeed == [st |-> "pending", items |-> <<>>]

\* the server listens; the feeds hold their documents
InitRequest ==
  /\ IdleSum /\ IdleNorm /\ IdleSort
  /\ pc = "idle"
  /\ \E len \in [Sources -> 0..MaxEntries] :
       feedDoc = [s \in Sources |-> FeedDocument(s, len[s])]
  /\ feedPromise = <<>>
  /\ merged = <<>> /\ allItems = <<>> /\ loopI = 0 /\ slot = <<>> /\ settled = <<>>
  /\ processedItems = <<>> /\ timers = 0 /\ delays = 0 /\ netErrors = 0
  /\ found = 0 /\ res = Undefined

InitAll == InitRequest /\ reqGuid = Undefined

\* the handler runs up to await Promise.all(feedPromises)
StartRequest ==
  /\ pc = "idle"
  /\ feedPromise' = [s \in Sources |-> PendingFeed]
  /\ pc' = "feeds"
  /\ UNCHANGED <<reqGuid, feedDoc, merged, allItems, loopI, slot, settled,
                 processedItems, timers, delays, netErrors, found, res>>
  /\ UNCHANGED <<varsSum, varsNorm, varsSort>>

\* the feed document arrives: fetchRSSFeed parses and maps it
FeedResponse(s) ==
  /\ pc = "feeds"
  /\ feedPromise[s].st = "pending"
  /\ feedPromise' = [feedPromise EXCEPT ![s] = fetchRSSFeed(s, feedDoc[s], TRUE)]
  /\ UNCHANGED <<pc, reqGuid, feedDoc, merged, allItems, loopI, slot, settled,
                 processedItems, timers, delays, netErrors, found, res>>
  /\ UNCHANGED <<varsSum, varsNorm, varsSort>>

\* the request for the feed fails
FeedError(s) ==
  /\ pc = "feeds"
  /\ feedPromise[s].st = "pending"
  /\ feedPromise' = [feedPromise EXCEPT ![s] = fetchRSSFeed(s, feedDoc[s], FALSE)]
  /\ UNCHANGED <<pc, reqGuid, feedDoc, merged, allItems, loopI, slot, settled,
                 processedItems, timers, delays, netErrors, found, res>>
  /\ UNCHANGED <<varsSum, varsNorm, varsSort>>

FeedsRejected == \E s \in Sources : feedPromise[s].st = "rejected"
FeedsFulfilled == \A s \in Sources : feedPromise[s].st = "fulfilled"

\* Promise.all(feedPromises) settles: merge, sort, and the first batch is started
FeedsSettled ==
  /\ pc = "feeds"
  /\ FeedsRejected \/ FeedsFulfilled
  /\ IF FeedsRejected
     THEN /\ res' = ErrorResponse
          /\ pc' = "sent"
          /\ UNCHANGED <<merged, allItems, slot, settled>>
     ELSE LET flat == MergeFeeds(feedPromise)
              sorted == SortByDate(flat)
          IN /\ merged' = flat
             /\ allItems' = sorted
             /\ IF Len(sorted) = 0
                THEN /\ res' = OkResponse(<<>>)
                     /\ pc' = "sent"
                     /\ slot' = <<>>
                     /\ settled' = <<>>
                ELSE /\ slot' = StartBatch([j \in 1..Len(sorted) |-> Idle], sorted, 0)
                     /\ settled' = SettledAtStart(sorted, 0)
                     /\ pc' = "batch"
                     /\ res' = res
  /\ UNCHANGED <<reqGuid, feedDoc, feedPromise, loopI, processedItems, timers, delays,
                 netErrors, found>>
  /\ UNCHANGED <<varsSum, varsNorm, varsSort>>

\* a rejection is delivered before any further response is handled
RejectionPending ==
  pc = "batch" /\ \E j \in BatchOf(loopI, Len(allItems)) : slot[j].st = "rejected"

\* the article arrives: the rest of the item's callback runs
ArticleResponse(j) ==
  /\ pc \in {"batch", "sent"}
  /\ ~RejectionPending
  /\ slot[j].st = "inflight"
  /\ LET url == allItems[j].link.v[1]
     IN slot' = [slot EXCEPT ![j] = ItemWithLink(allItems[j], Extracted(url), ExtractKind(url))]
  /\ settled' = Append(settled, j)
  /\ UNCHANGED <<pc, reqGuid, feedDoc, feedPromise, merged, allItems, loopI,
                 processedItems, timers, delays, netErrors, found, res>>
  /\ UNCHANGED <<varsSum, varsNorm, varsSort>>

\* the article request fails or times out
ArticleError(j) ==
  /\ pc \in {"batch", "sent"}
  /\ ~RejectionPending
  /\ slot[j].st = "inflight"
  /\ netErrors < MaxNetErrors
  /\ netErrors' = netErrors + 1
  /\ slot' = [slot EXCEPT ![j] = ItemWithLink(allItems[j], ExtractError(TimeoutMessage), "error")]
  /\ settled' = Append(settled, j)
  /\ UNCHANGED <<pc, reqGuid, feedDoc, feedPromise, merged, allItems, loopI,
                 processedItems, timers, delays, found, res>>
  /\ UNCHANGED <<varsSum, varsNorm, varsSort>>

\* Promise.all(processingPromises) is fulfilled: push, then the timer or the response
BatchFulfilled ==
  /\ pc = "batch"
  /\ \A j \in BatchOf(loopI, Len(allItems)) : slot[j].st = "fulfilled"
  /\ processedItems' = processedItems \o BatchResults(slot, settled, loopI, Len(allItems))
  /\ IF MoreBatches(loopI, Len(allItems))
     THEN /\ timers' = timers + 1
          /\ pc' = "delay"
          /\ res' = res
     ELSE /\ timers' = timers
          /\ pc' = "sent"
          /\ res' = OkResponse(processedItems')
  /\ UNCHANGED <<reqGuid, feedDoc, feedPromise, merged, allItems, loopI, slot, settled,
                 delays, netErrors, found>>
  /\ UNCHANGED <<varsSum, varsNorm, varsSort>>

\* Promise.all(processingPromises) is rejected: the catch block of the route
BatchRejected ==
  /\ RejectionPending
  /\ res' = ErrorResponse
  /\ pc' = "sent"
  /\ UNCHANGED <<reqGuid, feedDoc, feedPromise, merged, allItems, loopI, slot, settled,
                 processedItems, timers, delays, netErrors, found>>
  /\ UNCHANGED <<varsSum, varsNorm, varsSort>>

\* the timer fires: i += batchSize, the loop test, and the next batch is started
TimerFires ==
  /\ pc = "delay"
  /\ delays' = delays + 1
  /\ loopI' = loopI + batchSize
  /\ IF loopI' < Len(allItems)
     THEN /\ slot' = StartBatch(slot, allItems, loopI')
          /\ settled' = settled \o SettledAtStart(allItems, loopI')
          /\ pc' = "batch"
          /\ res' = res
     ELSE /\ res' = OkResponse(processedItems)
          /\ pc' = "sent"
          /\ UNCHANGED <<slot, settled>>
  /\ UNCHANGED <<reqGuid, feedDoc, feedPromise, merged, allItems, processedItems,
                 timers, netErrors, found>>
  /\ UNCHANGED <<varsSum, varsNorm, varsSort>>

Next ==
  \/ StartRequest
  \/ \E s \in Sources : FeedResponse(s)
  \/ \E s \in Sources : FeedError(s)
  \/ FeedsSettled
  \/ \E j \in 1..Len(slot) : ArticleResponse(j)
  \/ \E j \in 1..Len(slot) : ArticleError(j)
  \/ BatchFulfilled
  \/ BatchRejected
  \/ TimerFires

Spec == InitAll /\ [][Next]_vars

--------------------------------------------------------------------------
(* GET /feeds/item/:guid *)

\* { ...item, summarized_content: summary }
Spread(item, summary) ==
  [guid |-> item.guid, title |-> item.title, description |-> item.description,
   link |-> item.link, pubDate |-> item.pubDate, imageUrl |-> item.imageUrl,
   source |-> item.source, sourceName |-> item.sourceName,
   summarized_content |-> summary]

ItemResponse(body) == [status |-> 200, body |-> body]
NotFoundResponse == [status |-> 404, body |-> Undefined]
FetchItemError == [status |-> 500, body |-> Undefined]

\* allItems.find(item => item.guid === guid): the position of the first match, or 0
FindGuid(items, guid) ==
  IF \E j \in 1..Len(items) : items[j].guid = guid
  THEN CHOOSE j \in 1..Len(items) :
         items[j].guid = guid /\ \A k \in 1..(j - 1) : items[k].guid # guid
  ELSE 0

\* the inner catch block, and the outer one when it throws in turn
ItemFallback(item) ==
  IF summarizeThrows(item.description) THEN FetchItemError
  ELSE ItemResponse(Spread(item, SummaryOf(item.description)))

\* the branch of an item without a link
ItemWithoutLinkOne(item) ==
  IF summarizeThrows(item.description) THEN ItemFallback(item)
  ELSE ItemResponse(Spread(item, SummaryOf(item.description)))

\* the branch of an item with a link, once extractArticleContent has returned
ItemWithLinkOne(item, content) ==
  IF summarizeThrows(content) THEN ItemFallback(item)
  ELSE ItemResponse(Processed(item, SummaryOf(content)))

\* a guid some entry of the feeds carries, or one that none carries
GuidParams ==
  {CanonicalItem(rssFeeds[p[1]], Str(<<Hostname[p[1]]>>), FeedEntry(p[1], p[2])).guid :
     p \in Sources \X (1..MaxEntries)} \cup {Str(<<"no-such-guid">>)}

InitOne == InitRequest /\ reqGuid \in {g \in GuidParams : g.t = "string"}

\* Promise.all(feedPromises) settles: flat, find, and the item's branch is entered
FeedsSettledOne ==
  /\ pc = "feeds"
  /\ FeedsRejected \/ FeedsFulfilled
  /\ IF FeedsRejected
     THEN /\ res' = FetchItemError
          /\ pc' = "sent"
          /\ UNCHANGED <<merged, allItems, found>>
     ELSE /\ merged' = MergeFeeds(feedPromise)
          /\ allItems' = merged'
          /\ found' = FindGuid(merged', reqGuid)
          /\ IF found' = 0
             THEN res' = NotFoundResponse /\ pc' = "sent"
             ELSE IF HasLink(merged'[found'])
                  THEN res' = res /\ pc' = "item"
                  ELSE res' = ItemWithoutLinkOne(merged'[found']) /\ pc' = "sent"
  /\ UNCHANGED <<reqGuid, feedDoc, feedPromise, loopI, slot, settled, processedItems,
                 timers, delays, netErrors>>
  /\ UNCHANGED <<varsSum, varsNorm, varsSort>>

\* the article arrives
ArticleResponseOne ==
  /\ pc = "item"
  /\ res' = ItemWithLinkOne(allItems[found], Extracted(allItems[found].link.v[1]))
  /\ pc' = "sent"
  /\ UNCHANGED <<reqGuid, feedDoc, feedPromise, merged, allItems, loopI, slot, settled,
                 processedItems, timers, delays, netErrors, found>>
  /\ UNCHANGED <<varsSum, varsNorm, varsSort>>

\* the article request fails or times out
ArticleErrorOne ==
  /\ pc = "item"
  /\ netErrors' = netErrors + 1
  /\ res' = ItemWithLinkOne(allItems[found], ExtractError(TimeoutMessage))
  /\ pc' = "sent"
  /\ UNCHANGED <<reqGuid, feedDoc, feedPromise, merged, allItems, loopI, slot, settled,
                 processedItems, timers, delays, found>>
  /\ UNCHANGED <<varsSum, varsNorm, varsSort>>

NextOne ==
  \/ StartRequest
  \/ \E s \in Sources : FeedResponse(s)
  \/ \E s \in Sources : FeedError(s)
  \/ FeedsSettledOne
  \/ ArticleResponseOne
  \/ ArticleErrorOne

SpecOne == InitOne /\ [][NextOne]_vars

--------------------------------------------------------------------------
(* allItems.sort on its own *)

\* the longest array sorted
MaxSortLen == 4

\* the pubDate values of the items sorted: three that parse, two that do not
SortDates ==
  {Str(<<DateStrings[d]>>) : d \in 1..3} \cup {Str(<<"No", "Date">>), Str(<<"yesterday">>)}

\* the item at position k of the merged array, with the given pubDate
SortItem(k, date) ==
  CanonicalItem(rssFeeds[1], Str(<<Hostname[1]>>),
                [EmptyEntry EXCEPT !.guid = Str(<<"guid-" \o Digit[k]>>), !.pubDate = date])

InitSort ==
  /\ IdleSum /\ IdleNorm /\ IdleReq
  /\ \E n \in 0..MaxSortLen : \E dates \in [1..n -> SortDates] :
       qItems = [k \in 1..n |-> SortItem(k, dates[k])]
  /\ qOut = <<>>
  /\ qPc = "merged"

SortStep ==
  /\ qPc = "merged"
  /\ qOut' = SortByDate(qItems)
  /\ qPc' = "sorted"
  /\ UNCHANGED qItems
  /\ UNCHANGED <<varsSum, varsNorm, varsReq>>

NextSort == SortStep

SpecSort == InitSort /\ [][NextSort]_vars

--------------------------------------------------------------------------
(* The summarizer: properties under SpecSummarizer *)

\* C9: a non-empty text under 100 characters with fewer than minWords words is
\* returned padded with its own leading words up to at least minWords words; an
\* empty text, or a short text of at least minWords words, is returned unchanged
C9_ShortTextPadded ==
  (sPc = "returned" /\ TextLen(sText) < 100) =>
    IF sText # <<>> /\ Len(sText) < sMin
    THEN /\ Len(sOut.v) >= sMin
         /\ SliceTo(sOut.v, Len(sText)) = sText
    ELSE sOut.v = sText

\* C10: a text on the frequency-scoring path (at least 100 characters, more than
\* three sentences) never yields a summary of more than maxWords words
C10_WithinMaxWords ==
  (sPc = "returned" /\ TextLen(sText) >= 100 /\ Len(Tokenize(sText, <<>>)) > 3) =>
    Len(sOut.v) <= sMax

--------------------------------------------------------------------------
(* The normalizer: properties under SpecNormalizer *)

\* the entry's link is a plain string, or an element with an href
LinkResolves(entry) ==
  \/ entry.link.t = "string"
  \/ /\ entry.link.t = "object"
     /\ Truthy(AttrsOf(entry.link))
     /\ AttrsOf(entry.link).href.t = "string"

\* C6: every emitted item has a defined, non-null title, description, link and
\* pubDate, and its link is "#" whenever the entry's link is neither a plain string
\* nor an element with an href
C6_SentinelsDefined ==
  nPc = "emitted" =>
    /\ \A f \in {"title", "description", "link", "pubDate"} : nOut[f].t \notin {"undefined", "null"}
    /\ ~LinkResolves(nEntry) => nOut.link = Str(<<"#">>)

--------------------------------------------------------------------------
(* GET /feeds/all: properties under Spec *)

\* the positions whose item pipeline waits for its article
InFlightItems == {j \in 1..Len(slot) : slot[j].st = "inflight"}

\* the promises of the request settled in an order other than that of the items
SettledOutOfOrder == \E a, b \in 1..Len(settled) : a < b /\ settled[a] > settled[b]

\* C1: an item with a link whose extraction failed (error, timeout, no usable
\* text) carries the summary of its description; an item whose extraction
\* succeeded carries the summary of the extracted text
C1_FallbackToDescription ==
  \A j \in 1..Len(slot) :
    (slot[j].st = "fulfilled" /\ HasLink(allItems[j])) =>
      slot[j].val.summarized_content =
        IF slot[j].ext = "ok"
        THEN SummaryOf(Extracted(allItems[j].link.v[1]))
        ELSE SummaryOf(allItems[j].description)

\* C2: whatever fails for single items, the request ends with a success response
\* that holds one record per item
C2_AlwaysSuccess ==
  pc = "sent" => (res.status = 200 /\ Len(res.items) = Len(allItems))

\* the items of source s when its document arrives and is mapped
SourceItems(s) ==
  [k \in 1..Len(feedDoc[s].entries) |->
     CanonicalItem(rssFeeds[s], Or(feedDoc[s].title, Str(<<Hostname[s]>>)),
                   feedDoc[s].entries[k])]

\* C3: a source that fails contributes the empty sequence and nothing else: no
\* feed promise is ever rejected, every settled one holds either all the items of
\* its source or none, the merged list is the concatenation of what the sources
\* hold in configured order, and an error response never comes from the feeds
C3_FailingSourceIsEmpty ==
  /\ \A s \in 1..Len(feedPromise) :
       /\ feedPromise[s].st \in {"pending", "fulfilled"}
       /\ feedPromise[s].st = "fulfilled" => feedPromise[s].items \in {<<>>, SourceItems(s)}
       /\ feedPromise[s].st = "pending" => feedPromise[s].items = <<>>
  /\ pc \in {"batch", "delay", "sent"} =>
       /\ merged = feedPromise[1].items \o feedPromise[2].items \o feedPromise[3].items
       /\ Len(allItems) = Len(merged)
  /\ (pc = "sent" /\ res.status = 500) => \E j \in 1..Len(slot) : slot[j].st = "rejected"

\* one source failed on a document with entries, the others delivered theirs, and
\* the request went on with the merged list
C3_Witness ==
  /\ pc \in {"batch", "delay", "sent"}
  /\ \E s \in Sources : Len(feedDoc[s].entries) > 0 /\ feedPromise[s].items = <<>>
  /\ \E s \in Sources : Len(feedPromise[s].items) > 0
  /\ Len(merged) > 0

\* C4: a success response lists one record per item of the sorted list, the k-th
\* record being that of the k-th item, whatever the order of completion
C4_OutputInInputOrder ==
  (pc = "sent" /\ res.status = 200) =>
    /\ Len(res.items) = Len(allItems)
    /\ \A k \in 1..Len(allItems) :
         /\ res.items[k] = slot[k].val
         /\ res.items[k].guid = allItems[k].guid
         /\ res.items[k].title = allItems[k].title
         /\ res.items[k].pubDate = allItems[k].pubDate

\* seven items in three batches answered after completions out of item order
C4_Witness ==
  /\ pc = "sent" /\ res.status = 200
  /\ Len(res.items) = 2 * batchSize + 1
  /\ SettledOutOfOrder

\* C5: the item pipelines in flight all belong to the current batch and are at
\* most batchSize; the batches before it have completed and the ones after it
\* have not started; one delay has elapsed per batch before the current one, and
\* a success response follows one delay per batch except the last
C5_BatchesSequential ==
  /\ InFlightItems \subseteq BatchOf(loopI, Len(slot))
  /\ Cardinality(InFlightItems) <= batchSize
  /\ \A j \in 1..Len(slot) :
       /\ j <= loopI => slot[j].st = "fulfilled"
       /\ j > loopI + batchSize => slot[j].st = "idle"
  /\ delays * batchSize = loopI
  /\ timers - delays \in {0, 1}
  /\ pc = "delay" <=> timers = delays + 1
  /\ (pc = "sent" /\ res.status = 200) =>
       delays = (IF Len(allItems) = 0 THEN 0 ELSE (Len(allItems) - 1) \div batchSize)

\* the second batch runs with several pipelines in flight after one delay
C5_Witness ==
  /\ pc = "batch"
  /\ loopI = batchSize /\ delays = 1
  /\ Cardinality(InFlightItems) >= 2

--------------------------------------------------------------------------
(* GET /feeds/item/:guid: properties under SpecOne *)

\* C7: the record process-one returns for an item has the fields and the
\* summarized_content of the record process-all produces for that item
C7_SameAsProcessAll ==
  (pc = "sent" /\ res.status = 200) =>
    LET item == allItems[found]
        content == IF netErrors = 0 THEN Extracted(item.link.v[1])
                   ELSE ExtractError(TimeoutMessage)
        all == IF HasLink(item) THEN ItemWithLink(item, content, "none")
               ELSE ItemWithoutLink(item)
    IN /\ all.st = "fulfilled"
       /\ DOMAIN res.body = DOMAIN all.val
       /\ res.body.summarized_content = all.val.summarized_content

--------------------------------------------------------------------------
(* allItems.sort: properties under SpecSort *)

\* where an item stood in the merged list
MergedPos(item) == CHOOSE k \in 1..Len(qItems) : qItems[k].guid = item.guid

Parses(item) == ParseDate(item.pubDate) # NaN

\* C8: after the sort, two items whose dates both parse stand newest first, and
\* items that the dates do not order (equal dates, or neither date parses) keep
\* their merged order
C8_NewestFirst ==
  qPc = "sorted" =>
    \A i, j \in 1..Len(qOut) :
      i < j =>
        /\ (Parses(qOut[i]) /\ Parses(qOut[j])) =>
             ParseDate(qOut[i].pubDate) >= ParseDate(qOut[j].pubDate)
        /\ (Parses(qOut[i]) = Parses(qOut[j])
              /\ ParseDate(qOut[i].pubDate) = ParseDate(qOut[j].pubDate)) =>
             MergedPos(qOut[i]) < MergedPos(qOut[j])

=============================================================================
